---- MODULE Spec2Model ----
(***************************************************************************)
(* A model of FileOrganizer (src/src/organizer.py): organize_files plans   *)
(* and executes one backup-then-move operation per analysis result, writes *)
(* file_organization_log.json, and undo_last_operation replays that log in *)
(* reverse.  The filesystem under the target directory is the state.       *)
(***************************************************************************)
EXTENDS Integers, Sequences, FiniteSets, TLC

VARIABLES
    fs,             \* files under the target directory: path -> content
    dirs,           \* directories the organizer has created
    log,            \* file_organization_log.json: LogAbsent, LogCorrupt or a document
    clock,          \* datetime.now(), in seconds
    create_backup,  \* self.create_backup
    pc,             \* "idle", "organize" (inside the loop of organize_files), "undo"
    batch,          \* analysis_results of the running organize_files call
    preview_mode,   \* preview_mode of the running organize_files call
    idx,            \* position of the loop of organize_files in batch
    operations,     \* operations of the running call
    errors,         \* errors of the running call
    result,         \* what the last finished call returned
    warned,         \* the last finished call printed the "Could not save" warning
    uops,           \* undo: log_data["operations"]
    uidx,           \* undo: position of the reversed loop in uops
    restored_count, \* undo: restored_count
    uerrors,        \* undo: errors
    fs0,            \* history: the files when the last organize_files call began
    outcome,        \* history: what happened to each record of batch
    undoOrder,      \* history: indices of uops in the order undo attempted them
    calls,          \* history: the calls finished so far
    faults,         \* history: number of injected I/O failures
    used,           \* history: number of records handed to organize_files
    fromBackup,     \* history: journal operations the last undo restored from backup
    shadow,         \* history: during a preview, the files had the records been executed
    interrupted,    \* history: the last organize_files call was cut short
    file_name,      \* analyze_file: the name of the file under analysis
    categories,     \* config["organization"]["categories"], in configuration order
    file_info       \* analyze_file: file_info

vars == <<fs, dirs, log, clock, create_backup, pc, batch, preview_mode, idx,
          operations, errors, result, warned, uops, uidx, restored_count,
          uerrors, fs0, outcome, undoOrder, calls, faults, used, fromBackup,
          shadow, interrupted, file_name, categories, file_info>>

\* the variables of the analyzer
catVars == <<file_name, categories, file_info>>

---------------------------------------------------------------------------
(* Bounds of the model *)
MaxBatch == 2
MaxRecords == 3
MaxCalls == 3
MaxOrganize == 2
MaxClock == 1
MaxFaults == 1
MaxName == 4

---------------------------------------------------------------------------
(* Values *)

\* Python's None
NoneVal == [none |-> TRUE]

\* no call has returned since the running one began
NoResult == [pending |-> TRUE]

LogAbsent == [state |-> "absent"]
LogCorrupt == [state |-> "corrupt"]

\* dict.get(key, default)
Get(d, key, default) == IF key \in DOMAIN d THEN d[key] ELSE default

\* File names are sequences of characters.
NameN == <<"n", ".", "t">>
NameM == <<"m", ".", "t">>
NameN1 == <<"n", "_", "0", "0", "1", ".", "t">>

\* A path is its top directory, its sub-directory and the file's name.
PathOf(root, dir, name) == [root |-> root, dir |-> dir, name |-> name]

\* Path.name
PathName(p) == p.name

\* Path.exists()
Exists(files, p) == p \in DOMAIN files

\* pathlib: the suffix starts at the last dot, unless that dot is the first
\* or the last character of the name.
RFindDot(name) ==
    LET S == {i \in 1..Len(name) : name[i] = "."}
    IN IF S = {} THEN 0 ELSE CHOOSE i \in S : \A j \in S : j <= i

HasSuffix(name) == RFindDot(name) > 1 /\ RFindDot(name) < Len(name)

\* Path.suffix
Suffix(name) ==
    IF HasSuffix(name) THEN SubSeq(name, RFindDot(name), Len(name)) ELSE <<>>

\* Path.stem
Stem(name) ==
    IF HasSuffix(name) THEN SubSeq(name, 1, RFindDot(name) - 1) ELSE name

DigitChar(d) == <<"0", "1", "2", "3", "4", "5", "6", "7", "8", "9">>[d + 1]

RECURSIVE Digits(_)
Digits(k) ==
    IF k < 10 THEN <<DigitChar(k)>>
    ELSE Digits(k \div 10) \o <<DigitChar(k % 10)>>

RECURSIVE ZeroPad(_, _)
ZeroPad(s, width) == IF Len(s) >= width THEN s ELSE ZeroPad(<<"0">> \o s, width)

\* f"{counter:03d}"
Format03d_Width2(counter) == ZeroPad(Digits(counter), 2)
Format03d(counter) == ZeroPad(Digits(counter), 3)

\* f"{base_name}_{counter:03d}{extension}"
ConflictName(base_name, counter, extension) ==
    base_name \o <<"_">> \o Format03d(counter) \o extension

\* datetime.now().strftime("%Y%m%d_%H%M%S")
Strftime(now) == ToString(now)

\* datetime.now().isoformat()
Isoformat(now) == "T" \o ToString(now)

---------------------------------------------------------------------------
(* _resolve_name_conflict *)

RECURSIVE ResolveLoop(_, _, _, _, _)
ResolveLoop(files, target_path, base_name, extension, counter) ==
    IF Exists(files, target_path)
    THEN ResolveLoop(files,
                     [target_path EXCEPT
                        !.name = ConflictName(base_name, counter, extension)],
                     base_name, extension, counter + 1)
    ELSE target_path

FirstCounter == 1

resolve_name_conflict_FromTwo(files, target_path) ==
    ResolveLoop(files, target_path, Stem(target_path.name),
                Suffix(target_path.name), FirstCounter + 1)
resolve_name_conflict(files, target_path) ==
    ResolveLoop(files, target_path, Stem(target_path.name),
                Suffix(target_path.name), FirstCounter)

---------------------------------------------------------------------------
(* _plan_file_operation *)

\* analysis_result["file_path"] raises KeyError when the key is missing
PlanRaises(analysis_result) == "file_path" \notin DOMAIN analysis_result

PlanError(analysis_result) == "'file_path'"

\* the conflict check of lines 99-101
HandleConflict_Never(files, target_file_path) == target_file_path
HandleConflict(files, target_file_path) ==
    IF Exists(files, target_file_path)
    THEN resolve_name_conflict(files, target_file_path)
    ELSE target_file_path

plan_file_operation(analysis_result, files, backups, now) ==
    LET source_path == analysis_result.file_path
        category == Get(analysis_result, "category", "others")
        suggested_name ==
            Get(analysis_result, "suggested_name", PathName(source_path))
        target_file_path ==
            HandleConflict(files, PathOf("organized", category, suggested_name))
        backup_path ==
            IF backups
            THEN PathOf("backup", Strftime(now), PathName(source_path))
            ELSE NoneVal
    IN [source_path |-> source_path,
        target_path |-> target_file_path,
        backup_path |-> backup_path,
        original_name |-> PathName(source_path),
        suggested_name |-> suggested_name,
        category |-> category,
        reason |-> Get(analysis_result, "reason", "No reason provided"),
        confidence |-> Get(analysis_result, "confidence", 50),
        operation_type |-> "move_and_rename"]

---------------------------------------------------------------------------
(* _create_directory_structure *)

\* self.categories.keys()
Categories == {"docs"}

create_directory_structure(ds, backups, now) ==
    ds \cup {<<"organized">>}
       \cup {<<"organized", category>> : category \in Categories}
       \cup {<<"organized", "others">>}
       \cup (IF backups THEN {<<"backup">>, <<"backup", Strftime(now)>>} ELSE {})

---------------------------------------------------------------------------
(* _execute_operation *)

\* shutil.copy2(src, dst) raises when src is missing or src and dst are the
\* same file; an I/O failure is injected by fault = "copy".
CopyRaises(files, src, dst, fault) ==
    fault = "copy" \/ ~Exists(files, src) \/ src = dst

Copy2(files, src, dst) == (dst :> files[src]) @@ files

\* shutil.move(src, dst), dst not a directory: os.rename, which replaces dst.
MoveRaises(files, src, dst, fault) == fault = "move" \/ ~Exists(files, src)

Move(files, src, dst) ==
    [p \in (DOMAIN files \ {src}) \cup {dst} |->
        IF p = dst THEN files[src] ELSE files[p]]

\* str(e)
ErrorText(fault) ==
    IF fault = "none" THEN "No such file or directory" ELSE "I/O error"

execute_operation_MoveFirst(operation, files, ds, fault) ==
    LET source_path == operation.source_path
        target_path == operation.target_path
        backup_path == operation.backup_path
        ds1 == ds \cup {<<"organized">>, <<"organized", target_path.dir>>}
        move_raises == MoveRaises(files, source_path, target_path, fault)
        files1 == IF move_raises THEN files
                  ELSE Move(files, source_path, target_path)
        copy_raises == backup_path # NoneVal
                       /\ CopyRaises(files1, target_path, backup_path, fault)
    IN IF move_raises
       THEN [files |-> files, dirs |-> ds1, success |-> FALSE,
             step |-> "move", error |-> ErrorText(fault)]
       ELSE IF copy_raises
       THEN [files |-> files1, dirs |-> ds1, success |-> FALSE,
             step |-> "backup", error |-> ErrorText(fault)]
       ELSE [files |-> IF backup_path # NoneVal
                       THEN Copy2(files1, target_path, backup_path)
                       ELSE files1,
             dirs |-> ds1, success |-> TRUE, step |-> "none", error |-> ""]

execute_operation(operation, files, ds, fault) ==
    LET source_path == operation.source_path
        target_path == operation.target_path
        backup_path == operation.backup_path
        has_backup == backup_path # NoneVal
        \* backup_path.parent.mkdir(parents=True, exist_ok=True)
        ds1 == IF has_backup
               THEN ds \cup {<<"backup">>, <<"backup", backup_path.dir>>}
               ELSE ds
        copy_raises ==
            has_backup /\ CopyRaises(files, source_path, backup_path, fault)
        files1 == IF has_backup /\ ~copy_raises
                  THEN Copy2(files, source_path, backup_path)
                  ELSE files
        \* target_path.parent.mkdir(parents=True, exist_ok=True)
        ds2 == ds1 \cup {<<"organized">>, <<"organized", target_path.dir>>}
        move_raises == MoveRaises(files1, source_path, target_path, fault)
    IN IF copy_raises
       THEN [files |-> files, dirs |-> ds1, success |-> FALSE,
             step |-> "backup", error |-> ErrorText(fault)]
       ELSE IF move_raises
       THEN [files |-> files1, dirs |-> ds2, success |-> FALSE,
             step |-> "move", error |-> ErrorText(fault)]
       ELSE [files |-> Move(files1, source_path, target_path), dirs |-> ds2,
             success |-> TRUE, step |-> "none", error |-> ""]

---------------------------------------------------------------------------
(* _generate_summary *)

RECURSIVE SumConfidence(_)
SumConfidence(ops) ==
    IF ops = <<>> THEN 0
    ELSE Head(ops).confidence + SumConfidence(Tail(ops))

\* round(total / n, 2), confidences counted in hundredths; a tie goes to the
\* even neighbour
RoundDiv(total, n) ==
    LET q == total \div n
        r == total % n
    IN IF 2 * r < n THEN q
       ELSE IF 2 * r > n THEN q + 1
       ELSE IF q % 2 = 0 THEN q ELSE q + 1

generate_summary_OperationsOnly(ops, errs, preview, now) ==
    [total_files |-> Len(ops),
     successful_operations |->
        Cardinality({i \in DOMAIN ops : Get(ops[i], "executed", FALSE)}),
     failed_operations |->
        Len(ops) - Cardinality({i \in DOMAIN ops : Get(ops[i], "executed", FALSE)}),
     errors |-> Len(errs),
     category_distribution |->
        [c \in {ops[i].category : i \in DOMAIN ops} |->
            Cardinality({i \in DOMAIN ops : ops[i].category = c})],
     average_confidence |->
        IF ops # <<>> THEN RoundDiv(SumConfidence(ops), Len(ops)) ELSE 0,
     preview_mode |-> preview,
     timestamp |-> Isoformat(now)]

generate_summary_FailedIsErrors(ops, errs, preview, now) ==
    [total_files |-> Len(ops) + Len(errs),
     successful_operations |->
        Cardinality({i \in DOMAIN ops : Get(ops[i], "executed", FALSE)}),
     failed_operations |-> Len(errs),
     errors |-> Len(errs),
     category_distribution |->
        [c \in {ops[i].category : i \in DOMAIN ops} |->
            Cardinality({i \in DOMAIN ops : ops[i].category = c})],
     average_confidence |->
        IF ops # <<>> THEN RoundDiv(SumConfidence(ops), Len(ops)) ELSE 0,
     preview_mode |-> preview,
     timestamp |-> Isoformat(now)]

\* lines 165-169: category_counts
CategoryCounts_ExecutedOnly(ops) ==
    [c \in {ops[i].category : i \in {j \in DOMAIN ops : ops[j].executed}} |->
        Cardinality({i \in DOMAIN ops : ops[i].executed /\ ops[i].category = c})]
CategoryCounts(ops) ==
    [c \in {ops[i].category : i \in DOMAIN ops} |->
        Cardinality({i \in DOMAIN ops : ops[i].category = c})]

\* lines 171-173, 181: round(avg_confidence, 2), 0 without confidences
AverageConfidence_DefaultHalf(ops) ==
    IF ops # <<>> THEN RoundDiv(SumConfidence(ops), Len(ops)) ELSE 50
AverageConfidence(ops) ==
    IF ops # <<>> THEN RoundDiv(SumConfidence(ops), Len(ops)) ELSE 0

generate_summary(ops, errs, preview, now) ==
    LET successful_operations ==
            Cardinality({i \in DOMAIN ops : Get(ops[i], "executed", FALSE)})
        category_counts == CategoryCounts(ops)
        avg_confidence == AverageConfidence(ops)
    IN [total_files |-> Len(ops) + Len(errs),
        successful_operations |-> successful_operations,
        failed_operations |-> Len(ops) - successful_operations,
        errors |-> Len(errs),
        category_distribution |-> category_counts,
        average_confidence |-> avg_confidence,
        preview_mode |-> preview,
        timestamp |-> Isoformat(now)]

---------------------------------------------------------------------------
(* _save_operation_log, and the JSON document it writes *)

TargetDir == "."

\* JSON's null
JsonNull == [json |-> "null"]

\* a dump that writes every operation as not executed
JsonDumpOperation_ExecutedFalse(op) ==
    [k \in DOMAIN op |->
        IF k = "backup_path"
        THEN (IF op[k] = NoneVal THEN JsonNull ELSE op[k])
        ELSE IF k = "executed"
        THEN "false"
        ELSE op[k]]

\* json.dump: None becomes null, True and False become true and false
JsonDumpOperation(op) ==
    [k \in DOMAIN op |->
        IF k = "backup_path"
        THEN (IF op[k] = NoneVal THEN JsonNull ELSE op[k])
        ELSE IF k = "executed"
        THEN (IF op[k] THEN "true" ELSE "false")
        ELSE op[k]]

\* json.load
JsonLoadOperation(obj) ==
    [k \in DOMAIN obj |->
        IF k = "backup_path"
        THEN (IF obj[k] = JsonNull THEN NoneVal ELSE obj[k])
        ELSE IF k = "executed"
        THEN obj[k] = "true"
        ELSE obj[k]]

JsonDump(log_data) ==
    [state |-> "written",
     timestamp |-> log_data.timestamp,
     target_directory |-> log_data.target_directory,
     operations |->
        [i \in DOMAIN log_data.operations |->
            JsonDumpOperation(log_data.operations[i])],
     errors |-> log_data.errors,
     summary |-> log_data.summary]

JsonLoad(doc) ==
    [timestamp |-> doc.timestamp,
     target_directory |-> doc.target_directory,
     operations |->
        [i \in DOMAIN doc.operations |-> JsonLoadOperation(doc.operations[i])],
     errors |-> doc.errors,
     summary |-> doc.summary]

\* a journal that keeps the operations and errors of the earlier runs
save_operation_log_Append(ops, errs, old_log, now, fault) ==
    LET old_ops == IF old_log.state = "written"
                   THEN JsonLoad(old_log).operations ELSE <<>>
        old_errs == IF old_log.state = "written"
                    THEN JsonLoad(old_log).errors ELSE <<>>
        log_data == [timestamp |-> Isoformat(now),
                     target_directory |-> TargetDir,
                     operations |-> old_ops \o ops,
                     errors |-> old_errs \o errs,
                     summary |-> generate_summary(ops, errs, FALSE, now)]
    IN IF fault = "open"
       THEN [log |-> old_log, warned |-> TRUE, raised |-> FALSE]
       ELSE IF fault = "write"
       THEN [log |-> LogCorrupt, warned |-> TRUE, raised |-> FALSE]
       ELSE [log |-> JsonDump(log_data), warned |-> FALSE, raised |-> FALSE]

\* a failure to write the journal that reaches the caller of organize_files
save_operation_log_Propagates(ops, errs, old_log, now, fault) ==
    IF fault = "open"
    THEN [log |-> old_log, warned |-> FALSE, raised |-> TRUE]
    ELSE IF fault = "write"
    THEN [log |-> LogCorrupt, warned |-> FALSE, raised |-> TRUE]
    ELSE [log |-> JsonDump([timestamp |-> Isoformat(now),
                            target_directory |-> TargetDir,
                            operations |-> ops,
                            errors |-> errs,
                            summary |-> generate_summary(ops, errs, FALSE, now)]),
          warned |-> FALSE, raised |-> FALSE]

\* open(log_file, 'w') fails (fault = "open": the file is left as it was) or
\* json.dump fails after the file was truncated (fault = "write"); the except
\* clause of lines 202-203 prints a warning and nothing is raised to the caller
save_operation_log(ops, errs, old_log, now, fault) ==
    LET log_data == [timestamp |-> Isoformat(now),
                     target_directory |-> TargetDir,
                     operations |-> ops,
                     errors |-> errs,
                     summary |-> generate_summary(ops, errs, FALSE, now)]
    IN IF fault = "open"
       THEN [log |-> old_log, warned |-> TRUE, raised |-> FALSE]
       ELSE IF fault = "write"
       THEN [log |-> LogCorrupt, warned |-> TRUE, raised |-> FALSE]
       ELSE [log |-> JsonDump(log_data), warned |-> FALSE, raised |-> FALSE]

---------------------------------------------------------------------------
(* The inputs: files of the directory and analysis results about them *)

SrcAN == PathOf("inbox", "a", NameN)
SrcBN == PathOf("inbox", "b", NameN)
SrcAM == PathOf("inbox", "a", NameM)

InitFiles == (SrcAN :> "A") @@ (SrcBN :> "B") @@ (SrcAM :> "M")

Records ==
    { [file_path |-> SrcAN, category |-> "docs", suggested_name |-> NameN,
       confidence |-> 90, reason |-> "r"],
      [file_path |-> SrcBN, category |-> "docs", suggested_name |-> NameN,
       confidence |-> 40, reason |-> "r"],
      [file_path |-> SrcAM, category |-> "docs", suggested_name |-> NameN1,
       confidence |-> 75, reason |-> "r"],
      [file_path |-> SrcAM],
      [file_path |-> SrcAM, error |-> "analysis failed"],
      [category |-> "docs", suggested_name |-> NameN] }

Batches == UNION {[1..n -> Records] : n \in 0..MaxBatch}

CountCalls(kinds) == Cardinality({i \in DOMAIN calls : calls[i] \in kinds})

---------------------------------------------------------------------------
(* organize_files *)

\* the organizer before its first call
OrganizerInit ==
    /\ fs = InitFiles
    /\ dirs = {}
    /\ log = LogAbsent
    /\ clock = 0
    /\ create_backup \in BOOLEAN
    /\ pc = "idle"
    /\ batch = <<>>
    /\ preview_mode = FALSE
    /\ idx = 1
    /\ operations = <<>>
    /\ errors = <<>>
    /\ result = NoResult
    /\ warned = FALSE
    /\ uops = <<>>
    /\ uidx = 1
    /\ restored_count = 0
    /\ uerrors = <<>>
    /\ fs0 = InitFiles
    /\ outcome = <<>>
    /\ undoOrder = <<>>
    /\ calls = <<>>
    /\ faults = 0
    /\ used = 0
    /\ fromBackup = {}
    /\ shadow = NoneVal
    /\ interrupted = FALSE

\* config["organization"]["categories"] of the organizer's configuration:
\* one category, "docs", that lists the extension "t"
OrganizerConfig == <<[category |-> "docs", extensions |-> {<<"t">>}]>>

Init ==
    /\ OrganizerInit
    /\ file_name = <<>>
    /\ categories = OrganizerConfig
    /\ file_info = <<>>

UndoLocals == <<uops, uidx, restored_count, uerrors, undoOrder>>
OrganizeLocals == <<batch, preview_mode, idx, operations, errors, outcome,
                    shadow>>

\* the locals of a call are gone when it returns
ClearOrganizeLocals ==
    /\ batch' = <<>>
    /\ preview_mode' = FALSE
    /\ idx' = 1
    /\ operations' = <<>>
    /\ errors' = <<>>
    /\ outcome' = <<>>
    /\ shadow' = NoneVal

ClearUndoLocals ==
    /\ uops' = <<>>
    /\ uidx' = 1
    /\ restored_count' = 0
    /\ uerrors' = <<>>
    /\ undoOrder' = <<>>

\* lines 22-29: the directories are created unless preview_mode
CreatesStructure(preview) == ~preview

StartOrganize ==
    /\ pc = "idle"
    /\ Len(calls) < MaxCalls
    /\ CountCalls({"organize", "preview"}) < MaxOrganize
    /\ \E analysis_results \in Batches, preview \in BOOLEAN :
        /\ used + Len(analysis_results) <= MaxRecords
        /\ used' = used + Len(analysis_results)
        /\ batch' = analysis_results
        /\ preview_mode' = preview
        /\ dirs' = IF CreatesStructure(preview)
                   THEN create_directory_structure(dirs, create_backup, clock)
                   ELSE dirs
    /\ pc' = "organize"
    /\ idx' = 1
    /\ operations' = <<>>
    /\ errors' = <<>>
    /\ outcome' = <<>>
    /\ fs0' = fs
    /\ interrupted' = FALSE
    /\ shadow' = IF preview_mode' THEN [files |-> fs, success |-> TRUE]
                  ELSE NoneVal
    /\ result' = NoResult
    /\ warned' = FALSE
    /\ UNCHANGED <<fs, log, clock, create_backup, catVars, UndoLocals, calls,
                   faults, fromBackup>>

\* the for loop of lines 31-54 goes on to the next record whatever happened
LoopAdvance_StopOnFailure(i, success) ==
    IF success THEN i + 1 ELSE Len(batch) + 1
LoopAdvance(i, success) == i + 1

\* line 31: the record the loop is at
NextRecord_Reversed(analysis_results, i) ==
    analysis_results[Len(analysis_results) - i + 1]
NextRecord(analysis_results, i) == analysis_results[i]

\* line 33
IsErrorRecord_Never(analysis_result) == FALSE
IsErrorRecord(analysis_result) == "error" \in DOMAIN analysis_result

\* lines 33-38: a record marked as an error
ErrorRecord ==
    /\ pc = "organize"
    /\ idx <= Len(batch)
    /\ IsErrorRecord(NextRecord(batch, idx))
    /\ "file_path" \in DOMAIN NextRecord(batch, idx)
    /\ errors' = Append(errors, [file |-> NextRecord(batch, idx).file_path,
                                 error |-> NextRecord(batch, idx).error])
    /\ outcome' = Append(outcome, "error_record")
    /\ idx' = LoopAdvance(idx, TRUE)
    /\ UNCHANGED <<fs, dirs, log, clock, create_backup, catVars, pc, batch,
                   preview_mode, operations, result, warned, UndoLocals, fs0,
                   interrupted,
                   calls, faults, used, fromBackup, shadow>>

\* lines 50-54: the except clause records the record as an error
OnException_Drop(errs, analysis_result) == errs
OnException(errs, analysis_result) ==
    Append(errs, [file |-> Get(analysis_result, "file_path", "unknown"),
                  error |-> PlanError(analysis_result)])

\* lines 40, 50-54: planning raised
PlanningRaises ==
    /\ pc = "organize"
    /\ idx <= Len(batch)
    /\ PlanRaises(NextRecord(batch, idx))
    /\ errors' = OnException(errors, NextRecord(batch, idx))
    /\ outcome' = Append(outcome, "plan_raised")
    /\ idx' = LoopAdvance(idx, TRUE)
    /\ UNCHANGED <<fs, dirs, log, clock, create_backup, catVars, pc, batch,
                   preview_mode, operations, result, warned, UndoLocals, fs0,
                   interrupted,
                   calls, faults, used, fromBackup, shadow>>

\* line 42
Executes_Always(preview) == TRUE
Executes(preview) == ~preview

\* lines 40, 45-48: preview_mode plans only
PreviewRecord ==
    /\ pc = "organize"
    /\ idx <= Len(batch)
    /\ ~IsErrorRecord(NextRecord(batch, idx))
    /\ ~PlanRaises(NextRecord(batch, idx))
    /\ ~Executes(preview_mode)
    /\ LET operation ==
            plan_file_operation(NextRecord(batch, idx), fs, create_backup, clock)
       IN operations' = Append(operations, operation @@ [executed |-> FALSE])
    /\ LET done == execute_operation(
                    plan_file_operation(NextRecord(batch, idx), shadow.files,
                                        create_backup, clock),
                    shadow.files, dirs, "none")
       IN shadow' = [files |-> done.files,
                     success |-> shadow.success /\ done.success]
    /\ outcome' = Append(outcome, "planned")
    /\ idx' = LoopAdvance(idx, TRUE)
    /\ UNCHANGED <<fs, dirs, log, clock, create_backup, catVars, pc, batch,
                   preview_mode, errors, result, warned, UndoLocals, fs0,
                   interrupted, calls, faults, used, fromBackup>>

Injected(fault) == IF fault = "none" THEN 0 ELSE 1

\* lines 155-157: the except clause of _execute_operation stores str(e)
ExecutionError_Unset(done) == <<>>
ExecutionError(done) ==
    IF done.success THEN <<>> ELSE [execution_error |-> done.error]

\* lines 40-44, 48: plan, then execute
ExecuteRecord ==
    /\ pc = "organize"
    /\ idx <= Len(batch)
    /\ ~IsErrorRecord(NextRecord(batch, idx))
    /\ ~PlanRaises(NextRecord(batch, idx))
    /\ Executes(preview_mode)
    /\ \E fault \in {"none", "copy", "move"} :
        /\ faults + Injected(fault) <= MaxFaults
        /\ fault = "copy" => create_backup
        /\ faults' = faults + Injected(fault)
        /\ LET operation ==
                plan_file_operation(NextRecord(batch, idx), fs, create_backup,
                                    clock)
               done == execute_operation(operation, fs, dirs, fault)
               failed == ExecutionError(done)
           IN /\ fs' = done.files
              /\ dirs' = done.dirs
              /\ operations' =
                    Append(operations,
                           operation @@ failed @@ [executed |-> done.success])
              /\ outcome' =
                    Append(outcome,
                           IF done.success THEN "executed"
                           ELSE IF done.step = "backup" THEN "backup_failed"
                           ELSE "move_failed")
              /\ idx' = LoopAdvance(idx, done.success)
    /\ UNCHANGED <<log, clock, create_backup, catVars, pc, batch, preview_mode,
                   errors, result, warned, UndoLocals, fs0, interrupted, calls, used,
                   fromBackup, shadow>>

\* line 60
SavesLog_Always(preview) == TRUE
SavesLog(preview) == ~preview

\* lines 56-67
FinishOrganize ==
    /\ pc = "organize"
    /\ idx > Len(batch)
    /\ \E fault \in {"none", "open", "write"} :
        /\ faults + Injected(fault) <= MaxFaults
        /\ fault # "none" => SavesLog(preview_mode)
        /\ faults' = faults + Injected(fault)
        /\ LET saved == save_operation_log(operations, errors, log, clock, fault)
           IN /\ log' = IF SavesLog(preview_mode) THEN saved.log ELSE log
              /\ warned' = IF SavesLog(preview_mode) THEN saved.warned ELSE FALSE
              /\ result' =
                    IF SavesLog(preview_mode) /\ saved.raised
                    THEN [exception |-> ErrorText(fault)]
                    ELSE [operations |-> operations,
                          errors |-> errors,
                          summary |-> generate_summary(operations, errors,
                                                       preview_mode, clock)]
    /\ calls' = Append(calls, IF preview_mode THEN "preview" ELSE "organize")
    /\ pc' = "idle"
    /\ fromBackup' = IF SavesLog(preview_mode) THEN {} ELSE fromBackup
    /\ ClearOrganizeLocals
    /\ UNCHANGED <<fs, dirs, clock, create_backup, catVars, UndoLocals, fs0,
                   interrupted, used>>

\* lines 31-61: the journal is written after the loop, so a call that is cut
\* short before line 61 leaves the journal file as it was
journal_after_interrupt_Partial(ops, errs, old_log, now) ==
    save_operation_log(ops, errs, old_log, now, "none").log
journal_after_interrupt(ops, errs, old_log, now) == old_log

\* the process is killed while organize_files runs: nothing is returned
Interrupt ==
    /\ pc = "organize"
    /\ faults < MaxFaults
    /\ faults' = faults + 1
    /\ log' = journal_after_interrupt(operations, errors, log, clock)
    /\ interrupted' = TRUE
    /\ fromBackup' = {}
    /\ pc' = "idle"
    /\ ClearOrganizeLocals
    /\ UNCHANGED <<fs, dirs, clock, create_backup, catVars, result, warned,
                   UndoLocals, fs0, calls, used>>

\* the clock advances while organize_files runs (nothing else reads it)
Tick ==
    /\ pc = "organize"
    /\ clock < MaxClock
    /\ clock' = clock + 1
    /\ UNCHANGED <<fs, dirs, log, create_backup, catVars, pc, OrganizeLocals, result,
                   warned, UndoLocals, fs0, interrupted, calls, faults, used,
                   fromBackup>>

---------------------------------------------------------------------------
(* undo_last_operation *)

\* line 210
NoLogResult_Success ==
    [success |-> TRUE, restored_files |-> 0, errors |-> <<>>,
     message |-> "Restored 0 files"]
NoLogResult == [success |-> FALSE, message |-> "No operation log found"]

\* lines 209-210
UndoNoLog ==
    /\ pc = "idle"
    /\ Len(calls) < MaxCalls
    /\ log = LogAbsent
    /\ result' = NoLogResult
    /\ warned' = FALSE
    /\ calls' = Append(calls, "undo")
    /\ UNCHANGED <<fs, dirs, log, clock, create_backup, catVars, pc, OrganizeLocals,
                   UndoLocals, fs0, interrupted, faults, used, fromBackup>>

\* lines 212-214, 248-252: json.load raises
UndoUnreadable ==
    /\ pc = "idle"
    /\ Len(calls) < MaxCalls
    /\ log = LogCorrupt
    /\ result' = [success |-> FALSE,
                  message |-> "Error during undo operation: Expecting value"]
    /\ warned' = FALSE
    /\ calls' = Append(calls, "undo")
    /\ UNCHANGED <<fs, dirs, log, clock, create_backup, catVars, pc, OrganizeLocals,
                   UndoLocals, fs0, interrupted, faults, used, fromBackup>>

\* lines 212-218
StartUndo ==
    /\ pc = "idle"
    /\ Len(calls) < MaxCalls
    /\ log.state = "written"
    /\ uops' = Get(JsonLoad(log), "operations", <<>>)
    /\ uidx' = 1
    /\ restored_count' = 0
    /\ uerrors' = <<>>
    /\ undoOrder' = <<>>
    /\ pc' = "undo"
    /\ result' = NoResult
    /\ warned' = FALSE
    /\ UNCHANGED <<fs, dirs, log, clock, create_backup, catVars, OrganizeLocals, fs0,
                   interrupted,                    calls, faults, used, fromBackup>>

\* reversed(operations): the index of the k-th operation visited, of n
UndoSequence_Forward(n, k) == k
UndoSequence(n, k) == n - k + 1

\* lines 225-239: the restoration of one executed operation
RestoreFromBackup_Never(operation, files) == FALSE
RestoreFromBackup(operation, files) ==
    /\ operation.backup_path # NoneVal
    /\ Exists(files, operation.backup_path)

RestoreFromTarget_Never(operation, files) == FALSE
RestoreFromTarget(operation, files) ==
    /\ ~RestoreFromBackup(operation, files)
    /\ Exists(files, operation.target_path)

restore_operation(operation, files, fault) ==
    LET src == IF RestoreFromBackup(operation, files)
               THEN operation.backup_path
               ELSE operation.target_path
        attempted == RestoreFromBackup(operation, files)
                     \/ RestoreFromTarget(operation, files)
    IN IF ~attempted
       THEN [files |-> files, restored |-> 0, errors |-> <<>>]
       ELSE IF MoveRaises(files, src, operation.source_path, fault)
       THEN [files |-> files, restored |-> 0,
             errors |-> <<[file |-> operation.original_name,
                           error |-> ErrorText(fault)]>>]
       ELSE [files |-> Move(files, src, operation.source_path),
             restored |-> 1, errors |-> <<>>]

\* lines 222-223: if not operation.get("executed", False): continue
Skipped_Never(operation) == FALSE
Skipped(operation) == ~Get(operation, "executed", FALSE)

\* lines 222-223
UndoSkip ==
    /\ pc = "undo"
    /\ uidx <= Len(uops)
    /\ Skipped(uops[UndoSequence(Len(uops), uidx)])
    /\ uidx' = uidx + 1
    /\ UNCHANGED <<fs, dirs, log, clock, create_backup, catVars, pc, OrganizeLocals,
                   result, warned, uops, restored_count, uerrors, undoOrder,
                   fs0, interrupted, calls, faults, used, fromBackup>>

\* lines 221, 225-239
UndoRestore ==
    /\ pc = "undo"
    /\ uidx <= Len(uops)
    /\ ~Skipped(uops[UndoSequence(Len(uops), uidx)])
    /\ \E fault \in {"none", "move"} :
        LET i == UndoSequence(Len(uops), uidx)
            done == restore_operation(uops[i], fs, fault)
        IN /\ faults + Injected(fault) <= MaxFaults
           /\ fault = "move" =>
                (RestoreFromBackup(uops[i], fs) \/ RestoreFromTarget(uops[i], fs))
           /\ faults' = faults + Injected(fault)
           /\ fs' = done.files
           /\ restored_count' = restored_count + done.restored
           /\ uerrors' = uerrors \o done.errors
           /\ undoOrder' = Append(undoOrder, i)
           /\ fromBackup' = IF done.restored = 1 /\ RestoreFromBackup(uops[i], fs)
                             THEN fromBackup \cup {i}
                             ELSE fromBackup \ {i}
    /\ uidx' = uidx + 1
    /\ UNCHANGED <<dirs, log, clock, create_backup, catVars, pc, OrganizeLocals, result,
                   warned, uops, fs0, interrupted, calls, used>>

\* lines 241-246: the return value after the loop
undo_result_FailOnErrors(count, errs) ==
    [success |-> errs = <<>>,
     restored_files |-> count,
     errors |-> errs,
     message |-> "Restored " \o ToString(count) \o " files"]
undo_result(count, errs) ==
    [success |-> TRUE,
     restored_files |-> count,
     errors |-> errs,
     message |-> "Restored " \o ToString(count) \o " files"]

\* lines 205-252: undo opens the journal for reading only (line 213) and
\* never deletes or rewrites it
journal_after_undo_Consumed(old_log) == LogAbsent
journal_after_undo(old_log) == old_log

\* lines 241-246
FinishUndo ==
    /\ pc = "undo"
    /\ uidx > Len(uops)
    /\ result' = undo_result(restored_count, uerrors)
    /\ warned' = FALSE
    /\ calls' = Append(calls, "undo")
    /\ pc' = "idle"
    /\ log' = journal_after_undo(log)
    /\ ClearUndoLocals
    /\ UNCHANGED <<fs, dirs, clock, create_backup, catVars, OrganizeLocals, fs0,
                   interrupted, faults, used, fromBackup>>

---------------------------------------------------------------------------
(* get_organization_stats *)

\* a reader whose json.load failure reaches the caller
get_organization_stats_Propagates(lg) ==
    IF lg = LogAbsent THEN NoneVal
    ELSE IF lg = LogCorrupt THEN [exception |-> "Expecting value"]
    ELSE Get(JsonLoad(lg), "summary", <<>>)

\* lines 254-268: None without a readable journal, else its summary
get_organization_stats(lg) ==
    IF lg = LogAbsent THEN NoneVal
    ELSE IF lg = LogCorrupt THEN NoneVal
    ELSE Get(JsonLoad(lg), "summary", <<>>)

GetStats ==
    /\ pc = "idle"
    /\ Len(calls) < MaxCalls
    /\ result' = get_organization_stats(log)
    /\ warned' = FALSE
    /\ calls' = Append(calls, "stats")
    /\ UNCHANGED <<fs, dirs, log, clock, create_backup, catVars, pc, OrganizeLocals,
                   UndoLocals, fs0, interrupted, faults, used, fromBackup>>

---------------------------------------------------------------------------
(* get_files_to_process (src/file_organizer.py) *)

\* <target_dir>/file_organization_log.json, a file at the top of the directory
LogFile == PathOf("", "", <<"file_organization_log", ".", "json">>)

\* the files under the directory: those of fs and, when it exists, the journal
FilesOnDisk(files, lg) ==
    DOMAIN files \cup (IF lg = LogAbsent THEN {} ELSE {LogFile})

\* lines 47-50: "**/*" matches at every depth, "*" at the top only
Matches(p, recursive) == recursive \/ p.root = ""

\* lines 54-55: hidden and system files are skipped
SkippedName(name) == Head(name) \in {".", "~"}

\* lines 38-58
get_files_to_process(files, lg, recursive) ==
    {p \in FilesOnDisk(files, lg) :
        Matches(p, recursive) /\ ~SkippedName(PathName(p))}

---------------------------------------------------------------------------
(* FileAnalyzer.analyze_file and _determine_category (src/src/file_analyzer.py) *)

\* the characters of file names and of configured extensions
Chars == {".", "p", "P", "x"}

\* str.lower()
LowerChar(c) == IF c = "P" THEN "p" ELSE c
Lower(str) == [i \in DOMAIN str |-> LowerChar(str[i])]

\* str.lstrip(".")
RECURSIVE LStripDots(_)
LStripDots(str) ==
    IF str # <<>> /\ Head(str) = "." THEN LStripDots(Tail(str)) ELSE str

\* the for loop of lines 59-61 over categories.items(), from position i
RECURSIVE CategoryLoop(_, _, _)
CategoryLoop(extension, cats, i) ==
    IF i > Len(cats) THEN "others"
    ELSE IF extension \in cats[i].extensions THEN cats[i].category
    ELSE CategoryLoop(extension, cats, i + 1)

\* a loop that keeps the last match
RECURSIVE CategoryLoopLast(_, _, _)
CategoryLoopLast(extension, cats, i) ==
    IF i < 1 THEN "others"
    ELSE IF extension \in cats[i].extensions THEN cats[i].category
    ELSE CategoryLoopLast(extension, cats, i - 1)

determine_category_LastMatch(extension, cats) ==
    CategoryLoopLast(LStripDots(extension), cats, Len(cats))
determine_category(extension, cats) ==
    CategoryLoop(LStripDots(extension), cats, 1)

\* the names of the files found: none starts with a dot
FileNames ==
    {n \in UNION {[1..k -> Chars] : k \in 1..MaxName} : n[1] # "."}

\* category configurations: label and extensions, in the order of the file
Configs ==
    { <<>>,
      <<[category |-> "docs", extensions |-> {<<"p">>}]>>,
      <<[category |-> "docs", extensions |-> {<<"p">>}],
        [category |-> "images", extensions |-> {<<"p">>, <<"x">>}]>>,
      <<[category |-> "images", extensions |-> {<<"x">>, <<"p", "x">>}],
        [category |-> "docs", extensions |-> {<<"p">>}]>>,
      <<[category |-> "docs", extensions |-> {<<"P">>}],
        [category |-> "images", extensions |-> {<<".", "p">>}]>>,
      <<[category |-> "docs", extensions |-> {}],
        [category |-> "others", extensions |-> {<<"x">>}],
        [category |-> "images", extensions |-> {<<"x">>, <<"p">>}]>> }

\* the variables of the organizer
orgVars == <<fs, dirs, log, clock, create_backup, pc, OrganizeLocals, result,
             warned, UndoLocals, fs0, calls, faults, used, fromBackup,
             interrupted>>

CatInit ==
    /\ OrganizerInit
    /\ file_name \in FileNames
    /\ categories \in Configs
    /\ file_info = <<>>

\* lines 22-41: the name, the lowercased suffix and the category of the file
Categorize ==
    /\ "category" \notin DOMAIN file_info
    /\ file_info' =
          [original_name |-> file_name,
           extension |-> Lower(Suffix(file_name)),
           category |->
              determine_category(Lower(Suffix(file_name)), categories)]
    /\ UNCHANGED <<orgVars, file_name, categories>>

CatNext == Categorize

CatSpec == CatInit /\ [][CatNext]_vars

---------------------------------------------------------------------------
Next ==
    \/ StartOrganize
    \/ ErrorRecord
    \/ PlanningRaises
    \/ PreviewRecord
    \/ ExecuteRecord
    \/ FinishOrganize
    \/ Interrupt
    \/ UndoNoLog
    \/ UndoUnreadable
    \/ StartUndo
    \/ UndoSkip
    \/ UndoRestore
    \/ FinishUndo
    \/ GetStats
    \/ Tick

Spec == Init /\ [][Next]_vars

TypeOK ==
    /\ pc \in {"idle", "organize", "undo"}
    /\ clock \in 0..MaxClock
    /\ faults \in 0..MaxFaults
    /\ idx \in 1..(Len(batch) + 1)
    /\ Len(operations) + Len(errors) <= Len(batch)

---------------------------------------------------------------------------
(* Properties *)

Last(seq) == seq[Len(seq)]

\* the name <stem>_<k as 3 digits><ext> written out, k < 10; k = 0 is the
\* bare name
ExpectedName(name, k) ==
    IF k = 0 THEN name
    ELSE Stem(name) \o <<"_", "0", "0", DigitChar(k)>> \o Suffix(name)

\* the operations of the running call with this category and suggested name
Group(c, s) ==
    {i \in DOMAIN operations :
        operations[i].category = c /\ operations[i].suggested_name = s}

Rank(i, G) == Cardinality({j \in G : j < i})

\* neither the name nor a counter variant of it exists in organized/<c>/ when
\* the call begins, or is the target of a record outside the group
CleanFor(c, s) ==
    \A k \in 0..MaxRecords :
        LET p == PathOf("organized", c, ExpectedName(s, k))
        IN /\ p \notin DOMAIN fs0
           /\ \A i \in DOMAIN operations \ Group(c, s) :
                operations[i].target_path # p

NamedInOrder(clean_only) ==
    \A i \in DOMAIN operations :
        LET c == operations[i].category
            s == operations[i].suggested_name
            G == Group(c, s)
        IN (Cardinality(G) >= 2
              /\ (\A j \in G : operations[j].executed)
              /\ (clean_only => CleanFor(c, s)))
           => operations[i].target_path =
                PathOf("organized", c, ExpectedName(s, Rank(i, G)))

NoOverwrite ==
    \A i \in DOMAIN operations :
        operations[i].executed =>
            /\ operations[i].target_path \in DOMAIN fs
            /\ fs[operations[i].target_path] = fs0[operations[i].source_path]
            /\ \A j \in DOMAIN operations :
                (j # i /\ operations[j].executed) =>
                    operations[j].target_path # operations[i].target_path

\* C1 (as stated): in a non-preview call, the executed records of one
\* category and suggested name get the bare name, _001, _002, ... in input
\* order, and no move overwrites an earlier record's file.
C1_Original ==
    (pc = "organize" /\ ~preview_mode) => (NamedInOrder(FALSE) /\ NoOverwrite)

\* C1 (amended): the same, the naming part only when neither the name nor a
\* counter variant of it exists under organized/<category>/ when the call
\* begins or is the target of another record of the batch; no move overwrites
\* an earlier record's file in any case.
C1_NamedInOrder ==
    (pc = "organize" /\ ~preview_mode) => (NamedInOrder(TRUE) /\ NoOverwrite)

\* two executed records of one group, the second renamed with counter 001
C1_Witness ==
    /\ pc = "organize"
    /\ ~preview_mode
    /\ Len(operations) = 2
    /\ operations[1].executed /\ operations[2].executed
    /\ operations[1].suggested_name = operations[2].suggested_name
    /\ operations[1].target_path = PathOf("organized", "docs", NameN)
    /\ operations[2].target_path = PathOf("organized", "docs", NameN1)

\* C2: the target_path of an operation does not exist on the filesystem at
\* the moment the operation is planned, whatever files are already in
\* organized/<category>/.
C2_TargetAbsentWhenPlanned ==
    [][Len(operations') > Len(operations)
        => Last(operations').target_path \notin DOMAIN fs]_vars

\* an operation was planned while organized/<category>/ already held its
\* suggested name, left there by an earlier call
C2_Witness ==
    /\ pc = "organize"
    /\ operations # <<>>
    /\ PathOf("organized", Last(operations).category,
              Last(operations).suggested_name) \in DOMAIN fs0
    /\ Last(operations).target_path.name # Last(operations).suggested_name

\* C3: a preview call changes no file, creates no directory and writes no
\* journal, and every operation it returns has executed = FALSE.
C3_PreviewChangesNothing ==
    [][((pc' = "organize" /\ preview_mode') \/ (pc = "organize" /\ preview_mode))
        => /\ fs' = fs
           /\ dirs' = dirs
           /\ log' = log
           /\ \A i \in DOMAIN operations' : ~operations'[i].executed
           /\ (pc' = "idle" /\ ~interrupted') =>
                /\ result'.operations = operations
                /\ \A i \in DOMAIN operations : ~operations[i].executed]_vars

\* a preview of two plannable records has returned, before any directory
\* exists
C3_Witness ==
    /\ pc = "idle"
    /\ calls = <<"preview">>
    /\ "operations" \in DOMAIN result
    /\ Len(result.operations) = 2
    /\ dirs = {}

\* a step of the loop of organize_files that executed (or tried to execute)
\* an operation with a backup_path
ExecutedWithBackup ==
    /\ pc = "organize"
    /\ ~preview_mode
    /\ Len(operations') = Len(operations) + 1
    /\ Last(operations').backup_path # NoneVal

\* C4: with backups enabled the source is never moved before its copy to
\* backup_path is complete: a failed backup step leaves the source and the
\* target as they were, a failed move step leaves the backup copy.
C4_BackupBeforeMove ==
    [][ExecutedWithBackup =>
        LET op == Last(operations')
            src == op.source_path
        IN /\ (src \in DOMAIN fs /\ src \notin DOMAIN fs')
                => /\ op.backup_path \in DOMAIN fs'
                   /\ fs'[op.backup_path] = fs[src]
           /\ Last(outcome') = "backup_failed"
                => /\ src \in DOMAIN fs <=> src \in DOMAIN fs'
                   /\ src \in DOMAIN fs => fs'[src] = fs[src]
                   /\ op.target_path \notin DOMAIN fs'
                   /\ ~Last(operations').executed
           /\ Last(outcome') = "move_failed"
                => /\ src \in DOMAIN fs'
                   /\ op.backup_path \in DOMAIN fs'
                   /\ fs'[op.backup_path] = fs[src]
                   /\ ~Last(operations').executed]_vars

\* the move of an operation failed after its backup copy was made
C4_Witness ==
    /\ pc = "organize"
    /\ create_backup
    /\ outcome # <<>>
    /\ Last(outcome) = "move_failed"
    /\ Last(operations).backup_path \in DOMAIN fs
    /\ Last(operations).source_path \in DOMAIN fs

\* the record at idx can be planned, and its own backup and move steps do
\* not fail: its source exists and no I/O failure is injected in this step
OwnStepsSucceed ==
    /\ "error" \notin DOMAIN batch[idx]
    /\ ~PlanRaises(batch[idx])
    /\ batch[idx].file_path \in DOMAIN fs
    /\ faults' = faults

\* C5: in a non-preview call the loop goes on to the next record whatever
\* happened to the earlier ones, and every record whose own backup and move
\* steps succeed ends with executed = TRUE.
C5_FaultIsolation ==
    [][(/\ pc = "organize" /\ ~preview_mode /\ idx <= Len(batch) /\ idx' # idx
        /\ ~interrupted')
        => /\ pc' = "organize"
           /\ idx' = idx + 1
           /\ OwnStepsSucceed
                => /\ Len(operations') = Len(operations) + 1
                   /\ Last(operations').executed
                   /\ Last(operations').source_path = batch[idx].file_path]_vars

\* the first record of a batch failed and the second was executed
C5_Witness ==
    /\ pc = "organize"
    /\ ~preview_mode
    /\ Len(outcome) = 2
    /\ outcome[1] \in {"backup_failed", "move_failed"}
    /\ outcome[2] = "executed"
    /\ ~operations[1].executed
    /\ operations[2].executed

\* the outcomes of records that became an entry of errors
ErrorOutcomes == {"error_record", "plan_raised"}

\* the position, in operations or in errors, of the entry of record j
EntryIndex(j) ==
    Cardinality({k \in 1..j :
        (outcome[k] \in ErrorOutcomes) <=> (outcome[j] \in ErrorOutcomes)})

ClassifiedOnce ==
    /\ Len(outcome) = idx - 1
    /\ Len(operations) + Len(errors) = idx - 1
    /\ \A j \in DOMAIN outcome :
        IF outcome[j] \in ErrorOutcomes
        THEN /\ EntryIndex(j) \in DOMAIN errors
             /\ errors[EntryIndex(j)].file =
                    Get(batch[j], "file_path", "unknown")
        ELSE /\ EntryIndex(j) \in DOMAIN operations
             /\ operations[EntryIndex(j)].source_path = batch[j].file_path

\* C6: every record of the batch becomes exactly one entry, of operations or
\* of errors, also when planning it raises; the call returns these lists, so
\* |operations| + |errors| is the number of records.
C6_EveryRecordClassified ==
    [][/\ pc' = "organize" => ClassifiedOnce'
       /\ (pc = "organize" /\ pc' = "idle" /\ ~interrupted')
            => /\ idx = Len(batch) + 1
               /\ result'.operations = operations
               /\ result'.errors = errors
               /\ Len(result'.operations) + Len(result'.errors) = Len(batch)
               /\ result'.summary.total_files = Len(batch)]_vars

\* a batch of an unplannable record and a plannable one has been processed
C6_Witness ==
    /\ pc = "organize"
    /\ idx = 3
    /\ outcome[1] = "plan_raised"
    /\ outcome[2] \notin ErrorOutcomes
    /\ Len(operations) = 1
    /\ Len(errors) = 1

\* C7: with backups enabled, a non-preview organize followed by undo leaves
\* exactly the files there were before organize, at their paths and with
\* their content, and nothing more under organized/ or backup/.
C7_RoundTrip ==
    (/\ pc = "idle"
     /\ create_backup
     /\ faults = 0
     /\ ~interrupted
     /\ Len(calls) >= 2
     /\ calls[Len(calls) - 1] = "organize"
     /\ calls[Len(calls)] = "undo"
     /\ result.success)
        => fs = fs0

\* C8: with no journal file, undo returns success = FALSE and a message and
\* changes nothing on the filesystem.
C8_UndoWithoutJournal ==
    [][(pc = "idle" /\ log = LogAbsent /\ calls' = Append(calls, "undo"))
        => /\ result'.success = FALSE
           /\ result'.message # ""
           /\ fs' = fs
           /\ dirs' = dirs
           /\ log' = log
           /\ pc' = "idle"]_vars

\* undo returned after an organize call whose journal could not be written
C8_Witness ==
    /\ pc = "idle"
    /\ calls = <<"organize", "undo">>
    /\ log = LogAbsent
    /\ fs # InitFiles
    /\ ~result.success

\* C9: undo attempts the executed operations of the journal in the reverse
\* of their recorded order: of two executed operations i < j, j is attempted
\* before i, and every executed operation is attempted.
C9_ReverseOrder ==
    pc = "undo" =>
        /\ \A a, b \in DOMAIN undoOrder :
            a < b => undoOrder[a] > undoOrder[b]
        /\ \A i \in DOMAIN uops :
            (uops[i].executed /\ \A a \in DOMAIN undoOrder : undoOrder[a] # i)
                => /\ uidx <= Len(uops)
                   /\ \A a \in DOMAIN undoOrder : undoOrder[a] > i

\* undo attempted the second operation of the journal, then the first
C9_Witness ==
    /\ pc = "undo"
    /\ undoOrder = <<2, 1>>

\* C10: after undo processed an executed operation whose backup_path exists,
\* source_path holds the content of the backup and target_path is absent.
C10_TargetAbsentAfterUndo ==
    [][(/\ pc = "undo"
        /\ Len(undoOrder') = Len(undoOrder) + 1
        /\ faults' = faults
        /\ uops[Last(undoOrder')].backup_path # NoneVal
        /\ uops[Last(undoOrder')].backup_path \in DOMAIN fs)
        => LET op == uops[Last(undoOrder')]
           IN /\ op.source_path \in DOMAIN fs'
              /\ fs'[op.source_path] = fs[op.backup_path]
              /\ op.target_path \notin DOMAIN fs']_vars

\* the step of undo that attempts the restoration of one executed operation
UndoAttempt ==
    /\ pc = "undo"
    /\ Len(undoOrder') = Len(undoOrder) + 1

\* the step added exactly one entry for this operation to the errors of undo
ReportsError(op) ==
    /\ Len(uerrors') = Len(uerrors) + 1
    /\ Last(uerrors').file = op.original_name

\* C11: undo run again on the same journal right after an undo that restored
\* operation X from its backup reports an error entry for X; X is neither
\* counted as restored again nor skipped without a trace.
C11_ReUndoReportsError ==
    [][(/\ UndoAttempt
        /\ calls # <<>>
        /\ Last(calls) = "undo"
        /\ Last(undoOrder') \in fromBackup)
        => /\ ReportsError(uops[Last(undoOrder')])
           /\ restored_count' = restored_count
           /\ pc' = "undo"]_vars

\* C12: when undo reaches an executed operation whose backup_path (if any)
\* and whose target_path both do not exist, it adds an error entry keyed by
\* original_name and goes on with the remaining operations.
C12_NeitherExistsIsError ==
    [][(/\ UndoAttempt
        /\ ~RestoreFromBackup(uops[Last(undoOrder')], fs)
        /\ uops[Last(undoOrder')].target_path \notin DOMAIN fs)
        => /\ ReportsError(uops[Last(undoOrder')])
           /\ uidx' = uidx + 1
           /\ pc' = "undo"]_vars

\* C13: once the journal is read, undo returns success = TRUE with the number
\* of restored files and the collected errors; a move that raises adds an
\* error entry for its operation, changes no file, and the loop goes on to
\* the next operation, so every executed operation is attempted.
C13_UndoSucceedsDespiteFailures ==
    [][/\ UndoAttempt
            => /\ pc' = "undo"
               /\ uidx' = uidx + 1
               /\ (fs' # fs) <=> (restored_count' = restored_count + 1)
               /\ (fs' = fs) => (restored_count' = restored_count)
               /\ faults' # faults
                    => /\ fs' = fs
                       /\ ReportsError(uops[Last(undoOrder')])
       /\ (pc = "undo" /\ pc' = "idle")
            => /\ result'.success = TRUE
               /\ result'.restored_files = restored_count
               /\ result'.errors = uerrors
               /\ {undoOrder[a] : a \in DOMAIN undoOrder}
                    = {i \in DOMAIN uops : uops[i].executed}]_vars

\* undo returned success after the move of the last operation of the journal
\* raised and the first operation was restored
C13_Witness ==
    /\ pc = "idle"
    /\ calls # <<>>
    /\ Last(calls) = "undo"
    /\ log.state = "written"
    /\ Len(log.operations) = 2
    /\ log.operations[1].original_name = NameM
    /\ log.operations[2].original_name = NameN
    /\ result.success
    /\ result.restored_files = 1
    /\ Len(result.errors) = 1
    /\ result.errors[1].file = NameN

\* the source, target and backup path of an operation
PathsOf(op) ==
    {op.source_path, op.target_path}
        \cup (IF op.backup_path = NoneVal THEN {} ELSE {op.backup_path})

\* the step leaves the file at p as it is
SamePath(p) ==
    /\ (p \in DOMAIN fs) <=> (p \in DOMAIN fs')
    /\ (p \in DOMAIN fs) => (fs'[p] = fs[p])

\* undo passes over an operation that was not executed: nothing changes
SkipsNonExecuted ==
    (/\ uidx <= Len(uops)
     /\ uidx' = uidx + 1
     /\ ~uops[Len(uops) - uidx + 1].executed)
        => /\ fs' = fs
           /\ restored_count' = restored_count
           /\ uerrors' = uerrors
           /\ undoOrder' = undoOrder

\* C14 (as stated): no step of undo changes the file at the source, target
\* or backup path of an operation whose executed flag is false, and such an
\* operation adds nothing to restored_files or errors.
C14_Original ==
    [][pc = "undo"
        => /\ SkipsNonExecuted
           /\ \A i \in DOMAIN uops :
                ~uops[i].executed
                    => \A p \in PathsOf(uops[i]) : SamePath(p)]_vars

\* C14 (amended): undo does nothing on behalf of an operation whose executed
\* flag is false: passing over it changes no file and adds nothing to
\* restored_files or errors; the file at one of its paths changes during undo
\* only if that path is also a path of an executed operation of the journal.
C14_SkipsNonExecuted ==
    [][pc = "undo"
        => /\ SkipsNonExecuted
           /\ \A i \in DOMAIN uops :
                ~uops[i].executed
                    => \A p \in PathsOf(uops[i]) :
                        (\A j \in DOMAIN uops :
                            uops[j].executed => p \notin PathsOf(uops[j]))
                            => SamePath(p)]_vars

\* undo is done: it restored an operation and passed over one whose move had
\* failed, whose backup copy is still there
C14_Witness ==
    /\ pc = "undo"
    /\ uidx > Len(uops)
    /\ restored_count >= 1
    /\ \E i \in DOMAIN uops :
        /\ ~uops[i].executed
        /\ uops[i].backup_path # NoneVal
        /\ uops[i].backup_path \in DOMAIN fs

\* a non-preview organize_files call returns
OrganizeReturns ==
    /\ pc = "organize"
    /\ pc' = "idle"
    /\ ~preview_mode
    /\ ~interrupted'

\* the journal holds exactly the operations and errors of the call that
\* returns in this step
JournalOfThisRun ==
    /\ log'.state = "written"
    /\ JsonLoad(log').operations = operations
    /\ JsonLoad(log').errors = errors
    /\ JsonLoad(log').summary.total_files = Len(operations) + Len(errors)

\* undo and get_organization_stats, called next, read the run that returned
ReadsLastRun ==
    /\ pc' = "undo" => uops' = result.operations
    /\ calls' = Append(calls, "stats")
        => /\ "total_files" \in DOMAIN result'
           /\ result'.total_files = Len(result.operations) + Len(result.errors)
           /\ result'.successful_operations = result.summary.successful_operations

C16_SaveFailureNotFatal ==
    [][(OrganizeReturns /\ faults' # faults)
        => /\ warned'
           /\ DOMAIN result' = {"operations", "errors", "summary"}
           /\ result'.operations = operations
           /\ result'.errors = errors
           /\ Len(result'.operations) + Len(result'.errors) = Len(batch)
           /\ result'.summary.total_files = Len(batch)
           /\ fs' = fs]_vars

\* a call returned an operation and an error entry although its journal was
\* cut short while being written
C16_Witness ==
    /\ pc = "idle"
    /\ calls # <<>>
    /\ Last(calls) = "organize"
    /\ warned
    /\ log = LogCorrupt
    /\ "operations" \in DOMAIN result
    /\ Len(result.operations) = 1
    /\ Len(result.errors) = 1

\* a step of a non-preview call that executed, or tried to execute, an
\* operation
ExecutionStep ==
    /\ pc = "organize"
    /\ ~preview_mode
    /\ Len(operations') = Len(operations) + 1

\* C17: executing an operation never raises to the loop of organize_files:
\* when the backup or the move step fails the operation is appended with
\* executed = FALSE and execution_error set, otherwise with executed = TRUE,
\* no execution_error, and the file moved.
C17_ExecuteNeverRaises ==
    [][ExecutionStep
        => LET op == Last(operations')
               step_fails ==
                    faults' # faults \/ op.source_path \notin DOMAIN fs
           IN /\ pc' = "organize"
              /\ errors' = errors
              /\ step_fails
                    => /\ ~op.executed
                       /\ "execution_error" \in DOMAIN op
                       /\ op.execution_error # ""
              /\ ~step_fails
                    => /\ op.executed
                       /\ "execution_error" \notin DOMAIN op
                       /\ op.target_path \in DOMAIN fs'
                       /\ op.source_path \notin DOMAIN fs']_vars

\* an executed operation is followed by one whose execution failed
C17_Witness ==
    /\ pc = "organize"
    /\ Len(operations) = 2
    /\ operations[1].executed
    /\ "execution_error" \notin DOMAIN operations[1]
    /\ ~operations[2].executed
    /\ "execution_error" \in DOMAIN operations[2]

\* C18: an operation that ends with executed = FALSE leaves the files at its
\* source, target and backup path as they were before it was processed, also
\* when the backup copy succeeded and the move failed.
C18_FailedLeavesNoTrace ==
    [][(ExecutionStep /\ ~Last(operations').executed)
        => \A p \in PathsOf(Last(operations')) : SamePath(p)]_vars

\* total_files and errors of a summary, against the lists it summarises
CountsAll(summary, ops, errs) ==
    /\ summary.total_files = Len(ops) + Len(errs)
    /\ summary.errors = Len(errs)

\* C19: the summary returned by every organize call, preview or not, has
\* total_files = |operations| + |errors| and errors = |errors|; so has the
\* summary of the journal.
C19_TotalFiles ==
    /\ "summary" \in DOMAIN result
        => CountsAll(result.summary, result.operations, result.errors)
    /\ log.state = "written"
        => CountsAll(log.summary, log.operations, log.errors)

\* a preview of an error record and a plannable record has returned
C19_Witness ==
    /\ pc = "idle"
    /\ calls # <<>>
    /\ Last(calls) = "preview"
    /\ "summary" \in DOMAIN result
    /\ Len(result.operations) = 1
    /\ Len(result.errors) = 1
    /\ result.summary.total_files = 2

\* successful_operations and failed_operations of a summary, against the
\* operations it summarises
CountsExecuted(summary, ops) ==
    LET executed_ops == {i \in DOMAIN ops : ops[i].executed = TRUE}
    IN /\ summary.successful_operations = Cardinality(executed_ops)
       /\ summary.failed_operations = Len(ops) - Cardinality(executed_ops)
       /\ summary.successful_operations + summary.failed_operations = Len(ops)

\* C20: in every summary successful_operations is the number of operations
\* with executed = TRUE and failed_operations is |operations| minus that
\* number; error entries count in neither.
C20_SuccessfulAndFailed ==
    /\ "summary" \in DOMAIN result
        => CountsExecuted(result.summary, result.operations)
    /\ log.state = "written"
        => CountsExecuted(log.summary, JsonLoad(log).operations)

\* a call returned one executed operation and one whose execution failed
C20_Witness ==
    /\ pc = "idle"
    /\ "summary" \in DOMAIN result
    /\ Len(result.operations) = 2
    /\ result.summary.successful_operations = 1
    /\ result.summary.failed_operations = 1
    /\ result.summary.errors = 0

\* C21: when the operations list is empty, for an empty batch or a batch of
\* error records only, average_confidence of the summary is exactly 0.
C21_EmptyAverageIsZero ==
    /\ ("summary" \in DOMAIN result /\ result.operations = <<>>)
        => result.summary.average_confidence = 0
    /\ (log.state = "written" /\ log.operations = <<>>)
        => log.summary.average_confidence = 0

\* a non-preview call of two records that both became error entries returned
C21_Witness ==
    /\ pc = "idle"
    /\ calls # <<>>
    /\ Last(calls) = "organize"
    /\ "summary" \in DOMAIN result
    /\ result.operations = <<>>
    /\ Len(result.errors) = 2
    /\ log.state = "written"
    /\ log.summary.total_files = 2

RECURSIVE SumOver(_, _)
SumOver(f, S) ==
    IF S = {} THEN 0
    ELSE LET x == CHOOSE y \in S : TRUE
         IN f[x] + SumOver(f, S \ {x})

\* category_distribution of a summary, against the operations it summarises
CountsByCategory(summary, ops) ==
    LET dist == summary.category_distribution
    IN /\ DOMAIN dist = {ops[i].category : i \in DOMAIN ops}
       /\ \A c \in DOMAIN dist :
            dist[c] = Cardinality({i \in DOMAIN ops : ops[i].category = c})
       /\ \A c \in DOMAIN dist : dist[c] >= 1
       /\ SumOver(dist, DOMAIN dist) = Len(ops)

\* C22: category_distribution maps each category to the number of
\* operations, executed or not, of that category; the counts sum to
\* |operations|, every key is the category of an operation, and error
\* entries add nothing.
C22_CategoryDistribution ==
    /\ "summary" \in DOMAIN result
        => CountsByCategory(result.summary, result.operations)
    /\ log.state = "written"
        => CountsByCategory(log.summary, JsonLoad(log).operations)

\* a preview of two records of different categories returned
C22_Witness ==
    /\ pc = "idle"
    /\ calls # <<>>
    /\ Last(calls) = "preview"
    /\ "summary" \in DOMAIN result
    /\ Len(result.operations) = 2
    /\ ~result.operations[1].executed
    /\ DOMAIN result.summary.category_distribution = {"docs", "others"}
    /\ result.summary.category_distribution["docs"] = 1

\* C23: with backups enabled all operations of one organize call have their
\* backup_path in one backup/<run-timestamp>/ directory, also when the clock
\* advances while the batch is processed.
C23_OneBackupDirectory ==
    (pc = "organize" /\ create_backup)
        => \A i, j \in DOMAIN operations :
            operations[i].backup_path.dir = operations[j].backup_path.dir

\* C24: a preview plans for every record the target_path that executing the
\* same batch from the same files plans for it, when every execution
\* succeeds.
C24_PreviewPlansAsExecute ==
    [][(/\ pc = "organize"
        /\ preview_mode
        /\ Len(operations') = Len(operations) + 1
        /\ shadow'.success)
        => Last(operations').target_path =
             plan_file_operation(batch[idx], shadow.files, create_backup,
                                 clock).target_path]_vars

\* C25: a record marked as an error yields exactly one error entry with the
\* record's path and error text, no operation and no change of the
\* filesystem, and the loop goes on.
C25_ErrorRecordSurfaced ==
    [][(/\ pc = "organize"
        /\ pc' = "organize"
        /\ idx' # idx
        /\ "error" \in DOMAIN batch[idx]
        /\ "file_path" \in DOMAIN batch[idx])
        => /\ errors' = Append(errors, [file |-> batch[idx].file_path,
                                        error |-> batch[idx].error])
           /\ operations' = operations
           /\ fs' = fs
           /\ dirs' = dirs
           /\ log' = log
           /\ idx' = idx + 1]_vars

\* a non-preview call passed over an error record whose file is still there
C25_Witness ==
    /\ pc = "organize"
    /\ ~preview_mode
    /\ idx = 2
    /\ "error" \in DOMAIN batch[1]
    /\ errors = <<[file |-> batch[1].file_path, error |-> batch[1].error]>>
    /\ operations = <<>>
    /\ batch[1].file_path \in DOMAIN fs

\* an extension without its leading dot
DotStripped(extension) ==
    IF extension # <<>> /\ Head(extension) = "." THEN Tail(extension)
    ELSE extension

\* the positions of the configuration whose extension set holds the
\* lowercased, dot-stripped suffix of the file's name
Matching ==
    {i \in DOMAIN categories :
        DotStripped(Lower(Suffix(file_name))) \in categories[i].extensions}

\* C26: for every file name and every category configuration the categorizer
\* returns a category: the first one, in configuration order, whose extension
\* set contains the lowercased, dot-stripped extension, and "others" when
\* there is none.
C26_FirstMatchOrOthers ==
    /\ "category" \notin DOMAIN file_info => ENABLED Categorize
    /\ "category" \in DOMAIN file_info
        => file_info.category =
             IF Matching = {} THEN "others"
             ELSE categories[CHOOSE i \in Matching :
                                \A j \in Matching : i <= j].category

\* a file with an upper-case extension that two categories list got the
\* first of them
C26_Witness ==
    /\ "category" \in DOMAIN file_info
    /\ file_name = <<"x", ".", "P">>
    /\ Len(categories) = 2
    /\ <<"p">> \in categories[1].extensions
    /\ <<"p">> \in categories[2].extensions
    /\ file_info.category = categories[1].category
    /\ categories[1].category # categories[2].category

\* the step that cuts an organize_files call short leaves the journal alone
InterruptKeepsJournal ==
    (pc = "organize" /\ interrupted') => log' = log

\* a source file that the interrupted call moved away
MovedByInterrupted(s) ==
    /\ s \in DOMAIN fs0
    /\ s.root = "inbox"
    /\ s \notin DOMAIN fs

C28_InputOrder ==
    [][(pc = "organize" /\ pc' = "organize" /\ idx' # idx)
        => /\ idx' = idx + 1
           /\ \/ /\ Len(operations') = Len(operations) + 1
                 /\ SubSeq(operations', 1, Len(operations)) = operations
                 /\ errors' = errors
                 /\ "file_path" \in DOMAIN batch[idx]
                 /\ Last(operations').source_path = batch[idx].file_path
                 /\ \A p \in DOMAIN fs \cup DOMAIN fs' :
                        ~SamePath(p) => p \in PathsOf(Last(operations'))
              \/ /\ Len(errors') = Len(errors) + 1
                 /\ SubSeq(errors', 1, Len(errors)) = errors
                 /\ operations' = operations
                 /\ IF "file_path" \in DOMAIN batch[idx]
                    THEN /\ "error" \in DOMAIN batch[idx]
                         /\ Last(errors').error = batch[idx].error
                         /\ Last(errors').file = batch[idx].file_path
                    ELSE /\ Last(errors').error = "'file_path'"
                         /\ Last(errors').file = "unknown"
                 /\ fs' = fs]_vars

\* b/n.t was moved before a/n.t, as the batch lists them, and took the bare
\* name
C28_Witness ==
    /\ pc = "organize"
    /\ idx = 3
    /\ Len(operations) = 2
    /\ batch[1].file_path = SrcBN
    /\ batch[2].file_path = SrcAN
    /\ operations[1].source_path = SrcBN
    /\ operations[1].target_path = PathOf("organized", "docs", NameN)
    /\ operations[2].source_path = SrcAN
    /\ operations[2].target_path = PathOf("organized", "docs", NameN1)
    /\ operations[1].executed /\ operations[2].executed

\* the candidate target of an operation, renamed with counter k
Variant(op, k) ==
    PathOf("organized", op.category, ExpectedName(op.suggested_name, k))

\* C29: when the candidate target exists the planned target is
\* <stem>_<k as 3 digits><ext> in the same directory for the smallest k >= 1
\* whose path does not exist; when it does not exist the candidate is kept;
\* k is at most the number of files.
C29_SmallestFreeCounter ==
    [][(pc = "organize" /\ Len(operations') = Len(operations) + 1)
        => LET op == Last(operations')
           IN IF Variant(op, 0) \notin DOMAIN fs
              THEN op.target_path = Variant(op, 0)
              ELSE \E k \in 1..Cardinality(DOMAIN fs) :
                    /\ op.target_path = Variant(op, k)
                    /\ Variant(op, k) \notin DOMAIN fs
                    /\ \A j \in 1..(k - 1) : Variant(op, j) \in DOMAIN fs]_vars

\* n.t and n_001.t were taken and the operation was planned onto n_002.t
C29_Witness ==
    /\ pc = "organize"
    /\ operations # <<>>
    /\ Last(operations).suggested_name = NameN
    /\ Last(operations).target_path = Variant(Last(operations), 2)
    /\ Variant(Last(operations), 1) \in DOMAIN fs

\* C30: undo restores an executed operation from its backup when backup_path
\* is set and exists: the backup goes to source_path and is gone, target_path
\* is not touched; otherwise, when target_path exists, target_path goes to
\* source_path; each move counts one restored file and nothing else changes.
C30_BackupPreferred ==
    [][(UndoAttempt /\ faults' = faults)
        => LET op == uops[Last(undoOrder')]
               from == IF op.backup_path # NoneVal
                          /\ op.backup_path \in DOMAIN fs
                       THEN op.backup_path
                       ELSE op.target_path
           IN /\ (from = op.backup_path) => SamePath(op.target_path)
              /\ IF from \in DOMAIN fs
                 THEN /\ op.source_path \in DOMAIN fs'
                      /\ fs'[op.source_path] = fs[from]
                      /\ from \notin DOMAIN fs'
                      /\ restored_count' = restored_count + 1
                      /\ \A p \in (DOMAIN fs \cup DOMAIN fs')
                                    \ {from, op.source_path} : SamePath(p)
                 ELSE /\ fs' = fs
                      /\ restored_count' = restored_count]_vars

\* undo restored a source from its backup, whose content differs from the
\* file at target_path, and the target is still there
C30_Witness ==
    /\ pc = "undo"
    /\ undoOrder # <<>>
    /\ Last(undoOrder) \in fromBackup
    /\ uops[Last(undoOrder)].backup_path \notin DOMAIN fs
    /\ uops[Last(undoOrder)].target_path \in DOMAIN fs
    /\ uops[Last(undoOrder)].source_path \in DOMAIN fs
    /\ fs[uops[Last(undoOrder)].source_path]
         # fs[uops[Last(undoOrder)].target_path]

\* the counts of a summary
SummaryCounts(summary) ==
    [k \in {"total_files", "successful_operations", "failed_operations",
            "errors", "category_distribution"} |-> summary[k]]

\* C31: after a non-preview organize call whose journal write succeeded,
\* loading the journal gives the operations (executed flags and
\* execution_error values included) and the errors that the call returned,
\* in the same order, and a summary with the counts of the returned summary;
\* get_organization_stats returns that summary, and None when no journal
\* exists.
C31_JournalRoundTrip ==
    [][/\ (OrganizeReturns /\ ~warned')
            => /\ log'.state = "written"
               /\ "operations" \in DOMAIN result'
               /\ JsonLoad(log').operations = result'.operations
               /\ JsonLoad(log').errors = result'.errors
               /\ SummaryCounts(JsonLoad(log').summary)
                    = SummaryCounts(result'.summary)
               /\ get_organization_stats(log') = JsonLoad(log').summary
       /\ calls' = Append(calls, "stats")
            => /\ log = LogAbsent => result' = NoneVal
               /\ log.state = "written" => result' = JsonLoad(log).summary]_vars

\* get_organization_stats returned the counts of a run with one executed and
\* one failed operation, both in the journal with flag and error text
C31_Witness ==
    /\ pc = "idle"
    /\ calls # <<>>
    /\ Last(calls) = "stats"
    /\ "successful_operations" \in DOMAIN result
    /\ result.successful_operations = 1
    /\ result.failed_operations = 1
    /\ log.state = "written"
    /\ \E i \in DOMAIN log.operations :
        /\ "execution_error" \in DOMAIN JsonLoad(log).operations[i]
        /\ ~JsonLoad(log).operations[i].executed
    /\ \E i \in DOMAIN log.operations : JsonLoad(log).operations[i].executed

\* C32: when a record that is not an error carries no category, the planner
\* takes the category the categorizer gives for the file's extension, and the
\* candidate path is organized/<category>/<suggested_name, or the original
\* name when none is suggested>.
C32_CategoryFromCategorizer ==
    [][(/\ pc = "organize"
        /\ Len(operations') = Len(operations) + 1
        /\ "category" \notin DOMAIN batch[idx])
        => LET op == Last(operations')
               name == PathName(op.source_path)
           IN /\ op.category = determine_category(Lower(Suffix(name)), categories)
              /\ op.suggested_name = Get(batch[idx], "suggested_name", name)
              /\ op.target_path.root = "organized"
              /\ op.target_path.dir = op.category]_vars

\* a step of an undo_last_operation call
UndoStep == pc = "undo" \/ pc' = "undo" \/ calls' = Append(calls, "undo")

C34_BackupHoldsOwnContent ==
    [][(OrganizeReturns /\ create_backup)
        => \A i \in DOMAIN operations :
            operations[i].executed
                => /\ operations[i].backup_path \in DOMAIN fs
                   /\ fs[operations[i].backup_path]
                        = fs0[operations[i].source_path]]_vars

\* another executed operation of the journal has the backup_path of uops[i]
SharesBackup(i) ==
    /\ uops[i].backup_path # NoneVal
    /\ \E j \in DOMAIN uops \ {i} :
        /\ Get(uops[j], "executed", FALSE)
        /\ uops[j].backup_path = uops[i].backup_path

\* C35: when two executed operations of one journal share a backup_path,
\* every restoration that undo makes for one of them puts that operation's
\* own original content at its source_path, never the other file's.
C35_SharedBackupOwnContent ==
    [][(UndoAttempt /\ restored_count' = restored_count + 1
                    /\ SharesBackup(Last(undoOrder')))
        => LET op == uops[Last(undoOrder')]
           IN /\ op.source_path \in DOMAIN fs'
              /\ fs'[op.source_path] = InitFiles[op.source_path]]_vars

\* the records of the batch name pairwise distinct source files
DistinctSources ==
    \A j, k \in DOMAIN batch :
        (/\ j # k
         /\ "file_path" \in DOMAIN batch[j]
         /\ "file_path" \in DOMAIN batch[k])
            => batch[j].file_path # batch[k].file_path

\* the content record j's file had when the call began is at the target of
\* its operation when that was executed, and still at its source otherwise
ContentKept(j) ==
    LET s == batch[j].file_path
    IN IF outcome[j] \notin ErrorOutcomes /\ operations[EntryIndex(j)].executed
       THEN /\ operations[EntryIndex(j)].target_path \in DOMAIN fs
            /\ fs[operations[EntryIndex(j)].target_path] = fs0[s]
       ELSE /\ s \in DOMAIN fs
            /\ fs[s] = fs0[s]

\* C36: organize loses no content: when a non-preview call over distinct
\* source files returns, the original content of each input file is at its
\* source_path (failed operation or error record) or at its operation's
\* target_path (executed operation), whatever failed for other records.
C36_NoContentLost ==
    [][(OrganizeReturns /\ DistinctSources)
        => \A j \in DOMAIN batch :
            ("file_path" \in DOMAIN batch[j] /\ batch[j].file_path \in DOMAIN fs0)
                => ContentKept(j)]_vars

\* the first operation failed and kept its source, the second took the same
\* suggested name and holds its own content at its target
C36_Witness ==
    /\ pc = "organize"
    /\ ~preview_mode
    /\ idx = 3
    /\ Len(operations) = 2
    /\ DistinctSources
    /\ ~operations[1].executed
    /\ operations[1].source_path \in DOMAIN fs0
    /\ operations[2].executed
    /\ operations[1].suggested_name = operations[2].suggested_name
    /\ ContentKept(1)
    /\ ContentKept(2)

\* the executed operations of the journal
ExecutedInJournal ==
    {i \in DOMAIN JsonLoad(log).operations :
        Get(JsonLoad(log).operations[i], "executed", FALSE)}

PreviewStep ==
    \/ pc = "idle" /\ pc' = "organize" /\ preview_mode'
    \/ pc = "organize" /\ preview_mode

\* C38: a preview call leaves the journal of an earlier non-preview run as it
\* is, so an undo or a get_organization_stats call made next reads that
\* earlier run.
C38_PreviewKeepsJournal ==
    [][/\ PreviewStep => log' = log
       /\ (pc = "idle" /\ pc' = "undo") => uops' = JsonLoad(log).operations
       /\ (calls' = Append(calls, "stats") /\ log.state = "written")
            => result' = JsonLoad(log).summary]_vars

\* a run, then a preview, then an undo that restored a file of the run
C38_Witness ==
    /\ pc = "idle"
    /\ calls = <<"organize", "preview", "undo">>
    /\ log.state = "written"
    /\ "restored_files" \in DOMAIN result
    /\ result.restored_files >= 1

\* C39: when the journal file exists and cannot be parsed, undo returns
\* success = FALSE with a message and moves no file, and
\* get_organization_stats returns None; neither raises, and the file is left
\* as it is.
C39_UnreadableJournal ==
    [][(log = LogCorrupt /\ pc = "idle")
        => /\ pc' # "undo"
           /\ calls' = Append(calls, "undo")
                => /\ DOMAIN result' = {"success", "message"}
                   /\ result'.success = FALSE
                   /\ fs' = fs
                   /\ log' = log
           /\ calls' = Append(calls, "stats")
                => /\ result' = NoneVal
                   /\ fs' = fs
                   /\ log' = log]_vars

\* a run whose journal was truncated, then get_organization_stats and undo:
\* undo failed and the moved files stay where the run put them
C39_Witness ==
    /\ pc = "idle"
    /\ log = LogCorrupt
    /\ calls = <<"organize", "stats", "undo">>
    /\ "success" \in DOMAIN result
    /\ ~result.success
    /\ fs # InitFiles

\* C40: after an organize run that moved a file, the files that the organize
\* command selects as inputs of a second run include neither the journal file nor a file
\* under organized/ or backup/.
C40_ArtifactsNotSelected ==
    (/\ pc = "idle"
     /\ calls # <<>>
     /\ Last(calls) = "organize"
     /\ "operations" \in DOMAIN result
     /\ \E i \in DOMAIN result.operations : result.operations[i].executed)
        => \A recursive \in BOOLEAN :
            \A p \in get_files_to_process(fs, log, recursive) :
                /\ p # LogFile
                /\ p.root \notin {"organized", "backup"}

====
